---- MODULE Spec2Model ----
(***************************************************************************)
(* Model of the settlement-solving pipeline:                               *)
(*   - HttpSolver (solver/src/http_solver.rs): prepare_model, send, solve  *)
(*   - TenderlyApi (crates/solver/src/settlement_access_list.rs):          *)
(*     estimate_access_lists                                               *)
(* Addresses (H160) are small naturals, amounts are naturals, HashMaps are *)
(* functions, Vecs are sequences, Option::None is the value NoneVal.       *)
(***************************************************************************)
EXTENDS Integers, Sequences, FiniteSets, TLC

\* ------------------------------------------------------------------------
\* Bounds of the model
\* ------------------------------------------------------------------------

\* longest enumerated liquidity snapshot (the named examples are longer)
MaxLiquidity == 2

\* largest batch of transactions handed to estimate_access_lists
MaxTxs == 2

\* ------------------------------------------------------------------------
\* Values
\* ------------------------------------------------------------------------

NoneVal == "None"

\* token addresses; 10 and 27 have a letter in their hex form
Tokens == {0, 1, 10, 27}

NativeTokens == {0, 1}

Rounds == {1, 2}

EmptyMap == [k \in {} |-> 0]

\* OrderKind
Sell == "Sell"
Buy == "Buy"

\* LimitOrder { sell_token, buy_token, sell_amount, buy_amount, kind,
\*              partially_fillable, .. }
LimitOrder(sell, buy, sa, ba, kind, pf) ==
    [sell_token |-> sell, buy_token |-> buy, sell_amount |-> sa,
     buy_amount |-> ba, kind |-> kind, partially_fillable |-> pf]

\* TokenPair::new: None for equal tokens, otherwise the pair sorted
TokenPair(a, b) ==
    IF a = b THEN NoneVal ELSE IF a < b THEN <<a, b>> ELSE <<b, a>>

\* AmmOrder { tokens: TokenPair, reserves: (u128, u128), fee: Rational, .. }
AmmOrder(a, b, r1, r2, fnum, fden) ==
    [tokens |-> TokenPair(a, b), reserves |-> <<r1, r2>>, fee |-> <<fnum, fden>>]

\* enum Liquidity { Limit(LimitOrder), Amm(AmmOrder) }
Limit(order) == [variant |-> "Limit", limit |-> order]
Amm(amm) == [variant |-> "Amm", amm |-> amm]

\* the limit orders the snapshots are drawn from
LimitOrders ==
    LET pairs == { q \in Tokens \X Tokens : q[1] # q[2] }
    IN { LimitOrder(p[1], p[2], 2, 1, Sell, FALSE) : p \in pairs }
       \cup { LimitOrder(p[1], p[2], 1, 3, Buy, TRUE) : p \in pairs }

\* the pools the snapshots are drawn from
AmmOrders ==
    { AmmOrder(p[1], p[2], 100, 50, 3, 1000) :
        p \in { q \in Tokens \X Tokens : q[1] < q[2] } }

LiquidityItems ==
    { Limit(o) : o \in LimitOrders } \cup { Amm(a) : a \in AmmOrders }

RECURSIVE SeqsUpTo(_, _)
SeqsUpTo(S, n) ==
    IF n = 0 THEN { <<>> }
    ELSE LET shorter == SeqsUpTo(S, n - 1)
         IN shorter \cup { Append(s, x) : s \in { t \in shorter : Len(t) = n - 1 }, x \in S }

\* tests::remove_orders_without_native_connection_: native token 0, tokens
\* 1, 10, 27, one pool (native, tokens[0]) and six orders make_order(buy, sell)
TestAmms == << AmmOrder(0, 1, 0, 0, 0, 1) >>

make_order(buy_token, sell_token) ==
    LimitOrder(sell_token, buy_token, 0, 0, Sell, FALSE)

TestOrders ==
    << make_order(0, 1), make_order(0, 10), make_order(1, 10),
       make_order(10, 1), make_order(10, 27), make_order(27, 10) >>

TestLiquidity ==
    << Amm(TestAmms[1]) >> \o [i \in 1..Len(TestOrders) |-> Limit(TestOrders[i])]

\* tests::real_solver: one sell order of token 1 for the native token 0 and
\* the pool (0, 1) without fee
RealSolverLiquidity ==
    << Limit(LimitOrder(1, 0, 2, 1, Sell, FALSE)), Amm(AmmOrder(0, 1, 100, 100, 0, 1)) >>

\* a chain of pools native - 1 - 10 with orders between 10 and 27
ChainLiquidity ==
    << Amm(AmmOrder(0, 1, 100, 50, 3, 1000)), Amm(AmmOrder(1, 10, 100, 50, 3, 1000)),
       Limit(LimitOrder(10, 27, 2, 1, Sell, FALSE)),
       Limit(LimitOrder(27, 10, 1, 3, Buy, TRUE)),
       Limit(LimitOrder(1, 10, 2, 1, Sell, FALSE)) >>

\* pools native - 1 and 1 - 10, an order between 10 and 27 and orders between
\* 1 and 10 in both directions
MixedLiquidity ==
    << Amm(AmmOrder(0, 1, 100, 50, 3, 1000)), Limit(LimitOrder(10, 27, 2, 1, Sell, FALSE)),
       Limit(LimitOrder(1, 10, 2, 1, Sell, FALSE)), Amm(AmmOrder(1, 10, 100, 50, 3, 1000)),
       Limit(LimitOrder(10, 1, 1, 3, Buy, TRUE)) >>

ExampleLiquidities ==
    { TestLiquidity, RealSolverLiquidity, ChainLiquidity, MixedLiquidity }

Liquidities == SeqsUpTo(LiquidityItems, MaxLiquidity) \cup ExampleLiquidities

\* ------------------------------------------------------------------------
\* Helpers on sequences and maps
\* ------------------------------------------------------------------------

HexDigit(d) ==
    CASE d = 0 -> "0" [] d = 1 -> "1" [] d = 2 -> "2" [] d = 3 -> "3"
      [] d = 4 -> "4" [] d = 5 -> "5" [] d = 6 -> "6" [] d = 7 -> "7"
      [] d = 8 -> "8" [] d = 9 -> "9" [] d = 10 -> "a" [] d = 11 -> "b"
      [] d = 12 -> "c" [] d = 13 -> "d" [] d = 14 -> "e" [] d = 15 -> "f"

\* an H160 has 20 bytes, 40 hex digits
HexWidth == 40

RECURSIVE LowerHex(_, _)
\* {:x} of an H160: every byte as two lowercase hex digits, zero padded
LowerHex(n, width) ==
    IF width = 0 THEN ""
    ELSE LowerHex(n \div 16, width - 1) \o HexDigit(n % 16)

RECURSIVE to_string(_)
\* usize::to_string: decimal digits without padding
to_string(n) ==
    IF n < 10 THEN HexDigit(n) ELSE to_string(n \div 10) \o HexDigit(n % 10)

\* ------------------------------------------------------------------------
\* HttpSolver::prepare_model and what it calls
\* ------------------------------------------------------------------------

\* the strings of the token addresses of the model, computed once
TokenStrings == [t \in Tokens |-> "t" \o LowerHex(t, HexWidth)]

\* the address in hex without the leading letter
token_to_string_without_letter(token) == LowerHex(token, HexWidth)

\* "Token names must start with a letter": format!("t{:x}", token)
token_to_string(token) ==
    IF token \in Tokens THEN TokenStrings[token] ELSE "t" \o LowerHex(token, HexWidth)

\* the tokens of one liquidity item, as the flat_map closure yields them
LiquidityTokens(l) ==
    IF l.variant = "Limit"
    THEN { l.limit.sell_token, l.limit.buy_token }
    ELSE { l.amm.tokens[1], l.amm.tokens[2] }

\* the tokens of the pools are left out of the map
map_tokens_limit_orders_only(liquidity) ==
    LET limits == SelectSeq(liquidity, LAMBDA l : l.variant = "Limit")
        set == UNION { LiquidityTokens(limits[i]) : i \in DOMAIN limits }
        keys == { token_to_string(t) : t \in set }
    IN [k \in keys |-> CHOOSE t \in set : token_to_string(t) = k]

\* HashMap<String, H160>: the de-duplicated tokens of all liquidity, keyed
\* by their string
map_tokens_for_solver(liquidity) ==
    LET set == UNION { LiquidityTokens(liquidity[i]) : i \in DOMAIN liquidity }
        keys == { token_to_string(t) : t \in set }
    IN [k \in keys |-> CHOOSE t \in set : token_to_string(t) = k]

\* HashMap<String, TokenInfoModel>
token_models(tokens) == [k \in DOMAIN tokens |-> [decimals |-> 18]]

\* the index keys start at one
map_orders_one_based(orders) ==
    LET keys == { to_string(i) : i \in DOMAIN orders }
    IN [k \in keys |-> orders[CHOOSE i \in DOMAIN orders : to_string(i) = k]]

\* enumerate() counts from 0; the key is the decimal string of the index
map_orders_for_solver(orders) ==
    LET keys == { to_string(i - 1) : i \in DOMAIN orders }
    IN [k \in keys |-> orders[CHOOSE i \in DOMAIN orders : to_string(i - 1) = k]]

order_models(orders) ==
    [k \in DOMAIN orders |->
        [sell_token |-> token_to_string(orders[k].sell_token),
         buy_token |-> token_to_string(orders[k].buy_token),
         sell_amount |-> orders[k].sell_amount,
         buy_amount |-> orders[k].buy_amount,
         allow_partial_fill |-> orders[k].partially_fillable,
         is_sell_order |-> (orders[k].kind = Sell)]]

map_amms_for_solver(amms) ==
    LET keys == { to_string(i - 1) : i \in DOMAIN amms }
    IN [k \in keys |-> amms[CHOOSE i \in DOMAIN amms : to_string(i - 1) = k]]

RECURSIVE Gcd(_, _)
Gcd(a, b) == IF b = 0 THEN a ELSE Gcd(b, a % b)

\* numer as f64 / denom as f64: the quotient as a number, written as the
\* fraction in lowest terms (equal quotients give equal values)
FeeRatio(fee) ==
    LET g == Gcd(fee[1], fee[2])
    IN IF g = 0 THEN <<0, 0>> ELSE <<fee[1] \div g, fee[2] \div g>>

amm_models(amms) ==
    [k \in DOMAIN amms |->
        [token1 |-> token_to_string(amms[k].tokens[1]),
         token2 |-> token_to_string(amms[k].tokens[2]),
         balance1 |-> amms[k].reserves[1],
         balance2 |-> amms[k].reserves[2],
         fee |-> FeeRatio(amms[k].fee),
         mandatory |-> FALSE]]

IsLimit(l) == l.variant = "Limit"
IsAmm(l) == l.variant = "Amm"

\* (Vec<LimitOrder>, Vec<AmmOrder>), each in the order of the snapshot
split_liquidity(liquidity) ==
    LET limits == SelectSeq(liquidity, IsLimit)
        amms == SelectSeq(liquidity, IsAmm)
    IN << [i \in DOMAIN limits |-> limits[i].limit],
          [i \in DOMAIN amms |-> amms[i].amm] >>

\* the filter_map closure: the other side of a pool with a native side
NativePoolPartner(amm, native_token) ==
    IF amm.tokens[1] = native_token THEN { amm.tokens[2] }
    ELSE IF amm.tokens[2] = native_token THEN { amm.tokens[1] }
    ELSE {}

tokens_with_native_pools(amms, native_token) ==
    UNION { NativePoolPartner(amms[i], native_token) : i \in DOMAIN amms }
    \cup { native_token }

\* the code comment's reading: only the sell token is looked at
remove_orders_sell_token_only(orders, amms, native_token) ==
    LET set == tokens_with_native_pools(amms, native_token)
        Keep(order) == order.sell_token \in set
    IN SelectSeq(orders, Keep)

\* no pruning at all
remove_orders_nothing(orders, amms, native_token) == orders

\* only the buy token is looked at
remove_orders_buy_token_only(orders, amms, native_token) ==
    LET set == tokens_with_native_pools(amms, native_token)
        Keep(order) == order.buy_token \in set
    IN SelectSeq(orders, Keep)

\* orders.retain(|order| [buy, sell].iter().any(|t| set.contains(t)))
remove_orders_without_native_connection(orders, amms, native_token) ==
    LET set == tokens_with_native_pools(amms, native_token)
        Keep(order) == order.buy_token \in set \/ order.sell_token \in set
    IN SelectSeq(orders, Keep)

\* the context keeps the orders as they were before pruning
prepare_model_context_unpruned(liquidity, native_token) ==
    LET tokens == map_tokens_for_solver(liquidity)
        split == split_liquidity(liquidity)
        pruned == remove_orders_without_native_connection(split[1], split[2], native_token)
        amm_orders == map_amms_for_solver(split[2])
    IN [orders |-> << pruned, split[2] >>,
        model |-> [tokens |-> token_models(tokens),
                   orders |-> order_models(map_orders_for_solver(pruned)),
                   uniswaps |-> amm_models(amm_orders),
                   default_fee |-> <<0, 1>>],
        context |-> [tokens |-> tokens,
                     limit_orders |-> map_orders_for_solver(split[1]),
                     amm_orders |-> amm_orders]]

\* the tokens map is built from what is left after pruning
prepare_model_tokens_after_pruning(liquidity, native_token) ==
    LET split == split_liquidity(liquidity)
        pruned == remove_orders_without_native_connection(split[1], split[2], native_token)
        tokens == map_tokens_for_solver(
                      [i \in DOMAIN pruned |-> Limit(pruned[i])]
                      \o [i \in DOMAIN split[2] |-> Amm(split[2][i])])
        limit_orders == map_orders_for_solver(pruned)
        amm_orders == map_amms_for_solver(split[2])
    IN [orders |-> << pruned, split[2] >>,
        model |-> [tokens |-> token_models(tokens),
                   orders |-> order_models(limit_orders),
                   uniswaps |-> amm_models(amm_orders),
                   default_fee |-> <<0, 1>>],
        context |-> [tokens |-> tokens,
                     limit_orders |-> limit_orders,
                     amm_orders |-> amm_orders]]

\* the locals and the result of prepare_model: tokens, the pruned orders,
\* the model and the context
prepare_model(liquidity, native_token) ==
    LET tokens == map_tokens_for_solver(liquidity)
        split == split_liquidity(liquidity)
        pruned == remove_orders_without_native_connection(split[1], split[2], native_token)
        limit_orders == map_orders_for_solver(pruned)
        amm_orders == map_amms_for_solver(split[2])
    IN [orders |-> << pruned, split[2] >>,
        model |-> [tokens |-> token_models(tokens),
                   orders |-> order_models(limit_orders),
                   uniswaps |-> amm_models(amm_orders),
                   default_fee |-> <<0, 1>>],
        context |-> [tokens |-> tokens,
                     limit_orders |-> limit_orders,
                     amm_orders |-> amm_orders]]

\* ------------------------------------------------------------------------
\* State
\* ------------------------------------------------------------------------

VARIABLES
    \* HttpSolver { api_key, config, native_token }
    api_key, config, native_token,
    \* one solving round r: the argument of solve / prepare_model ...
    liquidity,
    \* ... where the round is: "idle", "start", "prepared", "sent" (awaiting
    \* request.send()), "reading" (awaiting response.text()), "done",
    \* "panicked"
    pc,
    \* the locals of prepare_model and solve: the pruned (limit orders, pools),
    \* the model and the context
    orders, model, context,
    \* the locals of send: query and body, and the request handed to the client
    request,
    \* how many POSTs the round has issued, how often it has called
    \* convert_settlement
    posts, converted,
    \* the status and the body text of the response
    status, text,
    \* what the round has traced
    log,
    \* what solve returned
    result,
    \* estimate_access_lists: the batch, where the call is ("idle", "pending",
    \* "returned") and where the future of each transaction is ("start",
    \* "block_number", "access_list", "done")
    txs, est_pc, fut,
    \* the GETs and the simulation requests issued for each transaction
    bn_calls, sim_requests,
    \* the replies the simulator gave to each transaction
    bn_reply, al_reply,
    \* the outcome of each future, the order in which the futures completed,
    \* and the vector the call returned
    results, completion, output,
    \* the test of /settle: where it is ("idle", "start", "solving", "solved",
    \* "failed", "old_tx_count", "old_balance", "old_token_a", "read",
    \* "settled", "new_tx_count", "new_balance", "new_token_a", "asserted",
    \* "panicked"), the faked time and the deadline of the auction, the values
    \* of the blockchain setup
    drv_pc, now, deadline, setup,
    \* the requests the solver has received, the solution ids the driver has
    \* returned, and the solution the test holds
    solver_reqs, solutions, solution,
    \* the chain (transaction count and balance of the solver, token balances
    \* of the trader) and the transactions mined on it since the test started
    chain, mined,
    \* the values read before settle, the values read after it, the assertions
    old, new, asserts

solverVars == << api_key, config, native_token >>

roundVars ==
    << liquidity, pc, orders, model, context, request, posts, converted, status,
       text, log, result >>

estVars ==
    << txs, est_pc, fut, bn_calls, sim_requests, bn_reply, al_reply, results,
       completion, output >>

driverVars ==
    << drv_pc, now, deadline, setup, solver_reqs, solutions, solution, chain, mined,
       old, new, asserts >>

vars == << solverVars, roundVars, estVars, driverVars >>

\* ------------------------------------------------------------------------
\* HttpSolver::send and Solver::solve
\* ------------------------------------------------------------------------

\* Option<String> api keys; the last one is no valid header value
ApiKeys == { NoneVal, "secret-1", "bad\nkey" }

\* HeaderValue::from_str fails on control characters
ValidHeaderValue(key) == key # "bad\nkey"

\* SolverConfig::default() and the one of tests::real_solver
Configs ==
    { [max_nr_exec_orders |-> 0, time_limit |-> 0],
      [max_nr_exec_orders |-> 100, time_limit |-> 100] }

\* SolverConfig::add_to_query on a url without query
add_to_query(cfg) ==
    "max_nr_exec_orders=" \o to_string(cfg.max_nr_exec_orders)
        \o "&time_limit=" \o to_string(cfg.time_limit)

\* serde_json::to_string(&model): the JSON text of the model
to_json(value) == [format |-> "json", shape |-> "BatchAuctionModel", value |-> value]

Part(tag, val) == [tag |-> tag, val |-> val]

\* the X-API-KEY header goes into the url instead
send_start_key_in_query(key, cfg, m) ==
    LET query == IF key = NoneVal THEN add_to_query(cfg)
                 ELSE add_to_query(cfg) \o "&api_key=" \o key
        body == to_json(m)
    IN [panic |-> FALSE,
        query |-> query,
        body |-> body,
        http |-> [method |-> "POST", path |-> "/solve", query |-> query,
                  headers |-> {}, body |-> body]]

\* send up to request.send(): the url, the optional header, the body
send_start(key, cfg, m) ==
    LET query == add_to_query(cfg)
        body == to_json(m)
        headers == IF key = NoneVal THEN {}
                   ELSE { [name |-> "X-API-KEY", value |-> key, sensitive |-> TRUE] }
    IN [panic |-> key # NoneVal /\ ~ValidHeaderValue(key),
        query |-> query,
        body |-> body,
        http |-> [method |-> "POST", path |-> "/solve", query |-> query,
                  headers |-> headers, body |-> body]]

Ok(value) == [ok |-> TRUE, value |-> value]
Err(message) == [ok |-> FALSE, err |-> message]

\* the context without the request body
send_context_without_body(query, body, txt) ==
    << Part("lit", "request query "), Part("query", query),
       Part("lit", ", response body "), Part("text", txt) >>

\* the closure context() of send
send_context(query, body, txt) ==
    << Part("lit", "request query "), Part("query", query),
       Part("lit", ", request body "), Part("body", body),
       Part("lit", ", response body "), Part("text", txt) >>

\* request.send().await.context("failed to send request")?: the context and,
\* as its cause, the client's error, which names the url
send_error(query) ==
    << Part("lit", "failed to send request"),
       Part("lit", "error sending request for url "), Part("url", "/solve?" \o query) >>

\* response.text().await.context("failed to decode response body")?
text_error ==
    << Part("lit", "failed to decode response body"),
       Part("lit", "error decoding response body") >>

\* StatusCode::is_success
is_success(code) == 200 <= code /\ code <= 299

\* serde_json::from_str::<SettledBatchAuctionModel>: the text has to be JSON
\* of the shape of a settled model
from_str(txt) ==
    IF txt.format = "json" /\ txt.shape = "SettledBatchAuctionModel"
    THEN Ok(txt.value)
    ELSE Err(<< Part("lit", "serde_json error") >>)

\* send without the ensure!(status.is_success(), ..)
send_finish_without_status_check(query, body, code, txt) ==
    LET parsed == from_str(txt)
    IN IF parsed.ok THEN parsed
       ELSE Err(<< Part("lit", "failed to decode response json, ") >>
                \o send_context(query, body, txt) \o parsed.err)

\* send after response.text(): the status check and the deserialization
send_finish(query, body, code, txt) ==
    IF ~is_success(code)
    THEN Err(<< Part("lit", "solver response is not success: status "),
                Part("status", code), Part("lit", ", ") >>
             \o send_context(query, body, txt))
    ELSE LET parsed == from_str(txt)
         IN IF parsed.ok THEN parsed
            ELSE Err(<< Part("lit", "failed to decode response json, ") >>
                     \o send_context(query, body, txt) \o parsed.err)

\* --- the solver's replies ----------------------------------------------

Statuses == { 200, 201, 404 }

SettledModel(prices, exec_orders, uniswaps) ==
    [prices |-> prices, orders |-> exec_orders, uniswaps |-> uniswaps]

ExecutedOrder(sell, buy) == [exec_sell_amount |-> sell, exec_buy_amount |-> buy]

\* a response without prices, executed orders and pool updates
EmptySettled == SettledModel(EmptyMap, EmptyMap, EmptyMap)

\* order "0" executed with the given amounts, at prices for tokens 0 and 1
SettledFirstOrder(sell, buy) ==
    SettledModel(
        [id \in { token_to_string(0), token_to_string(1) } |->
            IF id = token_to_string(0) THEN 2 ELSE 1],
        [idx \in { "0" } |-> ExecutedOrder(sell, buy)],
        EmptyMap)

\* an executed order under an index no request of the model uses
SettledUnknownOrder ==
    SettledModel(EmptyMap, [idx \in { "9" } |-> ExecutedOrder(1, 1)], EmptyMap)

\* a clearing price for a token identifier that no snapshot contains
SettledUnknownToken ==
    SettledModel([id \in { "tffffffffffffffffffffffffffffffffffffffff" } |-> 1],
                 EmptyMap, EmptyMap)

\* a balance update for a pool under an index no request of the model uses
SettledUnknownPool ==
    SettledModel(EmptyMap, EmptyMap,
                 [idx \in { "9" } |-> [balance_update1 |-> 1, balance_update2 |-> 0 - 1]])

SettledModels ==
    { EmptySettled, SettledFirstOrder(2, 1), SettledFirstOrder(3, 1), SettledUnknownOrder,
      SettledUnknownToken, SettledUnknownPool }

SettledText(settled) ==
    [format |-> "json", shape |-> "SettledBatchAuctionModel", value |-> settled]

\* JSON of another shape, and text that is no JSON
OtherJsonText == [format |-> "json", shape |-> "other", value |-> EmptySettled]
GarbageText == [format |-> "garbage", shape |-> "", value |-> EmptySettled]

Texts == { SettledText(m) : m \in SettledModels } \cup { OtherJsonText, GarbageText }

\* --- settlement::convert_settlement (section 4.5 of the specification) ---

\* the executed amounts respect the order's kind, amounts and partial-fill flag
WithinOrderBounds(order, exec) ==
    IF order.kind = Sell
    THEN /\ exec.exec_sell_amount <= order.sell_amount
         /\ (~order.partially_fillable => exec.exec_sell_amount = order.sell_amount)
    ELSE /\ exec.exec_buy_amount <= order.buy_amount
         /\ (~order.partially_fillable => exec.exec_buy_amount = order.buy_amount)

executed_amount(order, exec) ==
    IF order.kind = Sell THEN exec.exec_sell_amount ELSE exec.exec_buy_amount

convert_settlement(settled, ctx) ==
    IF \E id \in DOMAIN settled.prices : id \notin DOMAIN ctx.tokens
    THEN Err(<< Part("lit", "referential error: token") >>)
    ELSE IF \E idx \in DOMAIN settled.orders : idx \notin DOMAIN ctx.limit_orders
    THEN Err(<< Part("lit", "referential error: order") >>)
    ELSE IF \E idx \in DOMAIN settled.uniswaps : idx \notin DOMAIN ctx.amm_orders
    THEN Err(<< Part("lit", "referential error: pool") >>)
    ELSE IF \E idx \in DOMAIN settled.orders :
                ~WithinOrderBounds(ctx.limit_orders[idx], settled.orders[idx])
    THEN Err(<< Part("lit", "executed amount out of bounds") >>)
    ELSE Ok([clearing_prices |->
                [a \in { ctx.tokens[id] : id \in DOMAIN settled.prices } |->
                    settled.prices[CHOOSE id \in DOMAIN settled.prices : ctx.tokens[id] = a]],
             trades |->
                [idx \in DOMAIN settled.orders |->
                    [order |-> ctx.limit_orders[idx],
                     executed_amount |->
                        executed_amount(ctx.limit_orders[idx], settled.orders[idx])]],
             interactions |->
                [idx \in DOMAIN settled.uniswaps |->
                    [amm |-> ctx.amm_orders[idx], update |-> settled.uniswaps[idx]]]])

\* Result::map(Some)
map_some(res) == IF res.ok THEN Ok([some |-> TRUE, settlement |-> res.value]) ELSE res

\* a failed conversion is reported as "no settlement"
solve_finish_conversion_error_as_none(sent, ctx) ==
    IF sent.ok
    THEN LET conv == convert_settlement(sent.value, ctx)
         IN IF conv.ok THEN map_some(conv) ELSE Ok([some |-> FALSE])
    ELSE sent

\* the entries of the response that the context does not know are left out
\* before the conversion
solve_finish_dropping_unknown(sent, ctx) ==
    IF sent.ok
    THEN LET known ==
                [prices |-> [id \in DOMAIN sent.value.prices \cap DOMAIN ctx.tokens |->
                                sent.value.prices[id]],
                 orders |-> [idx \in DOMAIN sent.value.orders \cap DOMAIN ctx.limit_orders |->
                                sent.value.orders[idx]],
                 uniswaps |-> [idx \in DOMAIN sent.value.uniswaps \cap DOMAIN ctx.amm_orders |->
                                sent.value.uniswaps[idx]]]
         IN map_some(convert_settlement(known, ctx))
    ELSE sent

\* solve after send has returned: `?` on the error, else trace and convert
solve_finish(sent, ctx) ==
    IF sent.ok THEN map_some(convert_settlement(sent.value, ctx)) ELSE sent

\* --- the rounds ----------------------------------------------------------

\* the snapshots the solving rounds are run on
SolveLiquidities == { TestLiquidity, RealSolverLiquidity, ChainLiquidity, <<>> }

NoText == [format |-> "none", shape |-> "", value |-> EmptySettled]

RoundsIdle ==
    /\ orders = [r \in Rounds |-> << <<>>, <<>> >>]
    /\ model = [r \in Rounds |-> NoneVal]
    /\ context = [r \in Rounds |-> NoneVal]
    /\ request = [r \in Rounds |-> NoneVal]
    /\ posts = [r \in Rounds |-> 0]
    /\ converted = [r \in Rounds |-> 0]
    /\ status = [r \in Rounds |-> 0]
    /\ text = [r \in Rounds |-> NoText]
    /\ log = [r \in Rounds |-> <<>>]
    /\ result = [r \in Rounds |-> NoneVal]

\* Option<T>
Some(v) == [some |-> TRUE, val |-> v]
None == [some |-> FALSE]

NoChain == [tx_count |-> 0, balance |-> 0, token_a |-> 0, token_b |-> 0]

NoAsserts == [tx_count |-> FALSE, balance |-> FALSE, token_a |-> FALSE, token_b |-> FALSE]

DriverIdle ==
    /\ drv_pc = "idle"
    /\ now = 0
    /\ deadline = 0
    /\ setup = [user_fee |-> 0, token_a_in_amount |-> 0, token_b_out_amount |-> 0,
                gas_price |-> 0]
    /\ solver_reqs = <<>>
    /\ solutions = {}
    /\ solution = None
    /\ chain = NoChain
    /\ mined = <<>>
    /\ old = NoChain
    /\ new = NoChain
    /\ asserts = NoAsserts

EstIdle ==
    /\ txs = <<>>
    /\ est_pc = "idle"
    /\ fut = <<>>
    /\ bn_calls = <<>>
    /\ sim_requests = <<>>
    /\ bn_reply = <<>>
    /\ al_reply = <<>>
    /\ results = <<>>
    /\ completion = <<>>
    /\ output = <<>>

\* prepare_model called on its own, as tests::real_solver does
PrepareModelCall(r) ==
    /\ pc[r] = "start"
    /\ LET pm == prepare_model(liquidity[r], native_token)
       IN /\ orders' = [orders EXCEPT ![r] = pm.orders]
          /\ model' = [model EXCEPT ![r] = pm.model]
          /\ context' = [context EXCEPT ![r] = pm.context]
    /\ pc' = [pc EXCEPT ![r] = "prepared"]
    /\ UNCHANGED << driverVars, solverVars, liquidity, request, posts, converted, status, text,
                    log, result, estVars >>

\* the context is kept in one place for all rounds
SolveStart_shared_context(r) ==
    /\ pc[r] = "start"
    /\ LET pm == prepare_model(liquidity[r], native_token)
           st == send_start(api_key, config, pm.model)
       IN /\ orders' = [orders EXCEPT ![r] = pm.orders]
          /\ model' = [model EXCEPT ![r] = pm.model]
          /\ context' = [q \in Rounds |-> pm.context]
          /\ IF st.panic
             THEN /\ pc' = [pc EXCEPT ![r] = "panicked"]
                  /\ UNCHANGED << request, posts, log >>
             ELSE /\ pc' = [pc EXCEPT ![r] = "sent"]
                  /\ request' = [request EXCEPT ![r] = st]
                  /\ posts' = [posts EXCEPT ![r] = @ + 1]
                  /\ log' = [log EXCEPT ![r] = Append(@, Part("request", st.body))]
    /\ UNCHANGED << driverVars, solverVars, liquidity, converted, status, text, result, estVars >>

\* solve up to the first await: prepare_model, then send up to request.send()
SolveStart(r) ==
    /\ pc[r] = "start"
    /\ LET pm == prepare_model(liquidity[r], native_token)
           st == send_start(api_key, config, pm.model)
       IN /\ orders' = [orders EXCEPT ![r] = pm.orders]
          /\ model' = [model EXCEPT ![r] = pm.model]
          /\ context' = [context EXCEPT ![r] = pm.context]
          /\ IF st.panic
             THEN /\ pc' = [pc EXCEPT ![r] = "panicked"]
                  /\ UNCHANGED << request, posts, log >>
             ELSE /\ pc' = [pc EXCEPT ![r] = "sent"]
                  /\ request' = [request EXCEPT ![r] = st]
                  /\ posts' = [posts EXCEPT ![r] = @ + 1]
                  /\ log' = [log EXCEPT ![r] = Append(@, Part("request", st.body))]
    /\ UNCHANGED << driverVars, solverVars, liquidity, converted, status, text, result, estVars >>

\* the failed request is sent again
SendFails_retry(r) ==
    /\ pc[r] = "sent"
    /\ posts[r] < 3
    /\ posts' = [posts EXCEPT ![r] = @ + 1]
    /\ UNCHANGED << driverVars, solverVars, liquidity, pc, orders, model, context, request,
                    converted, status, text, log, result, estVars >>

\* request.send() fails: send returns the error and solve passes it on
SendFails(r) ==
    /\ pc[r] = "sent"
    /\ result' = [result EXCEPT ![r] =
                    solve_finish(Err(send_error(request[r].query)), context[r])]
    /\ pc' = [pc EXCEPT ![r] = "done"]
    /\ UNCHANGED << driverVars, solverVars, liquidity, orders, model, context, request, posts,
                    converted, status, text, log, estVars >>

\* request.send() yields the response: its status is read
ReceiveStatus(r, code) ==
    /\ pc[r] = "sent"
    /\ status' = [status EXCEPT ![r] = code]
    /\ pc' = [pc EXCEPT ![r] = "reading"]
    /\ UNCHANGED << driverVars, solverVars, liquidity, orders, model, context, request, posts,
                    converted, text, log, result, estVars >>

\* response.text() fails
TextFails(r) ==
    /\ pc[r] = "reading"
    /\ result' = [result EXCEPT ![r] = solve_finish(Err(text_error), context[r])]
    /\ pc' = [pc EXCEPT ![r] = "done"]
    /\ UNCHANGED << driverVars, solverVars, liquidity, orders, model, context, request, posts,
                    converted, status, text, log, estVars >>

\* response.text() yields the body: the rest of send and of solve
ReceiveText(r, txt) ==
    /\ pc[r] = "reading"
    /\ text' = [text EXCEPT ![r] = txt]
    /\ LET sent == send_finish(request[r].query, request[r].body, status[r], txt)
       IN /\ log' = [log EXCEPT ![r] =
                        IF sent.ok
                        THEN @ \o << Part("response", txt), Part("settled", sent.value) >>
                        ELSE Append(@, Part("response", txt))]
          /\ converted' = [converted EXCEPT ![r] = IF sent.ok THEN @ + 1 ELSE @]
          /\ result' = [result EXCEPT ![r] = solve_finish(sent, context[r])]
    /\ pc' = [pc EXCEPT ![r] = "done"]
    /\ UNCHANGED << driverVars, solverVars, liquidity, orders, model, context, request, posts,
                    status, estVars >>

\* --- prepare_model on every snapshot ------------------------------------

InitPrepare ==
    /\ api_key = NoneVal
    /\ config = [max_nr_exec_orders |-> 0, time_limit |-> 0]
    /\ native_token \in NativeTokens
    /\ \E l \in Liquidities : liquidity = [r \in Rounds |-> IF r = 1 THEN l ELSE <<>>]
    /\ pc = [r \in Rounds |-> IF r = 1 THEN "start" ELSE "idle"]
    /\ RoundsIdle
    /\ DriverIdle
    /\ EstIdle

NextPrepare == \E r \in Rounds : PrepareModelCall(r)

SpecPrepare == InitPrepare /\ [][NextPrepare]_vars

\* --- solving rounds ----------------------------------------------------

Init ==
    /\ api_key \in ApiKeys
    /\ config \in Configs
    /\ native_token \in NativeTokens
    /\ liquidity \in [Rounds -> SolveLiquidities]
    /\ pc = [r \in Rounds |-> "start"]
    /\ RoundsIdle
    /\ DriverIdle
    /\ EstIdle

Next ==
    \/ \E r \in Rounds : SolveStart(r)
    \/ \E r \in Rounds : SendFails(r)
    \/ \E r \in Rounds, code \in Statuses : ReceiveStatus(r, code)
    \/ \E r \in Rounds : TextFails(r)
    \/ \E r \in Rounds, txt \in Texts : ReceiveText(r, txt)

Spec == Init /\ [][Next]_vars

\* ------------------------------------------------------------------------
\* TenderlyApi: AccessListEstimating::estimate_access_lists
\* ------------------------------------------------------------------------


\* TransactionBuilder { data, from, to, .. }: each of them optional
Transaction(data, from, to) == [data |-> data, from |-> from, to |-> to]

Transactions ==
    { Transaction(d, f, t) :
        d \in { None, Some("0x13d79a0b") },
        f \in { None, Some(5) },
        t \in { None, Some(9), Some(11) } }

\* TenderlyApi { network_id, .. }
NetworkId == "1"

\* reqwest::Result<BlockNumber> of TenderlyApi::block_number: a transport
\* error, an error status (error_for_status), or the block number
BlockNumberReplies ==
    { Err("error sending request"), Err("HTTP status server error (500)"),
      Ok([block_number |-> 100]), Ok([block_number |-> 101]) }

\* an entry of generated_access_list on the wire: storage_keys may be absent
WireItem(address, storage_keys) == [address |-> address, storage_keys |-> storage_keys]

WireLists ==
    { <<>>,
      << WireItem(1, Some(<< "k1" >>)) >>,
      << WireItem(2, None), WireItem(1, Some(<< "k1", "k2" >>)) >> }

\* reqwest::Result<TenderlyResponse> of TenderlyApi::access_list, the response
\* body still as JSON
AccessListReplies ==
    { Err("error sending request"), Err("HTTP status client error (400)") }
    \cup { Ok([generated_access_list |-> l]) : l \in WireLists }

NoReply == [got |-> FALSE]
Got(reply) == [got |-> TRUE, reply |-> reply]

\* #[serde(default)] storage_keys: an absent field is the empty Vec
deserialize_item(item) ==
    [address |-> item.address,
     storage_keys |-> IF item.storage_keys.some THEN item.storage_keys.val ELSE <<>>]

\* entries without a storage_keys field are skipped
deserialize_response_skipping_absent(wire) ==
    [generated_access_list |->
        LET present == SelectSeq(wire.generated_access_list,
                                 LAMBDA item : item.storage_keys.some)
        IN [i \in DOMAIN present |-> deserialize_item(present[i])]]

\* .json::<TenderlyResponse>()
deserialize_response(wire) ==
    [generated_access_list |->
        [i \in DOMAIN wire.generated_access_list |->
            deserialize_item(wire.generated_access_list[i])]]

\* impl From<AccessListItem> for web3::types::AccessListItem
into_item(item) == [address |-> item.address, storage_keys |-> item.storage_keys]

\* the three `?` on tx.data, tx.from and tx.to, in this order
preconditions(tx) ==
    IF ~tx.data.some THEN Err("transaction data does not exist")
    ELSE IF ~tx.from.some THEN Err("transaction from does not exist")
    ELSE IF ~tx.to.some THEN Err("transaction to does not exist")
    ELSE Ok([input |-> tx.data.val, from |-> tx.from.val, to |-> tx.to.val])

\* the request is scoped to a block number fixed beforehand
tenderly_request_fixed_block(fields, block_number) ==
    [network_id |-> NetworkId,
     block_number |-> 100,
     from |-> fields.from,
     input |-> fields.input,
     to |-> fields.to,
     generate_access_list |-> TRUE]

\* TenderlyRequest { .. }
tenderly_request(fields, block_number) ==
    [network_id |-> NetworkId,
     block_number |-> block_number.block_number,
     from |-> fields.from,
     input |-> fields.input,
     to |-> fields.to,
     generate_access_list |-> TRUE]

\* the access list is returned without the emptiness check
access_list_result_without_ensure(response) ==
    Ok([i \in DOMAIN response.generated_access_list |->
           into_item(response.generated_access_list[i])])

\* ensure!(!response.generated_access_list.is_empty(), ..) and the mapping
access_list_result(response) ==
    IF response.generated_access_list = <<>>
    THEN Err("empty access list")
    ELSE Ok([i \in DOMAIN response.generated_access_list |->
                into_item(response.generated_access_list[i])])

\* the outputs in the order in which the futures completed
join_all_completion_order(res, order) == [i \in DOMAIN res |-> res[order[i]]]

\* the first failure takes the place of every output
join_all_fail_fast(res, order) ==
    LET failed == SelectSeq(order, LAMBDA i : ~res[i].ok)
    IN IF failed = <<>> THEN res ELSE [i \in DOMAIN res |-> res[failed[1]]]

\* futures::future::join_all: the output of every future, in the order of the
\* futures
join_all(res, order) == res

\* AccessListEstimating::estimate_access_list: the only result of a batch of one
estimate_access_list(out) == out[1]

Batches == SeqsUpTo(Transactions, MaxTxs)

\* the block-number query goes out before the preconditions are looked at
EstimateStart_query_first ==
    /\ est_pc = "idle"
    /\ est_pc' = "pending"
    /\ fut' = [i \in DOMAIN txs |-> IF preconditions(txs[i]).ok THEN "block_number" ELSE "done"]
    /\ bn_calls' = [i \in DOMAIN txs |-> 1]
    /\ results' = [i \in DOMAIN txs |->
                      IF preconditions(txs[i]).ok THEN None ELSE preconditions(txs[i])]
    /\ completion' = SelectSeq([i \in DOMAIN txs |-> i], LAMBDA i : ~preconditions(txs[i]).ok)
    /\ sim_requests' = [i \in DOMAIN txs |-> <<>>]
    /\ bn_reply' = [i \in DOMAIN txs |-> NoReply]
    /\ al_reply' = [i \in DOMAIN txs |-> NoReply]
    /\ UNCHANGED << driverVars, solverVars, roundVars, txs, output >>

\* the call and the first poll of join_all: every future runs up to its first
\* await, in the order of the transactions: it fails on a missing field or
\* issues the block-number query
EstimateStart ==
    /\ est_pc = "idle"
    /\ est_pc' = "pending"
    /\ fut' = [i \in DOMAIN txs |-> IF preconditions(txs[i]).ok THEN "block_number" ELSE "done"]
    /\ bn_calls' = [i \in DOMAIN txs |-> IF preconditions(txs[i]).ok THEN 1 ELSE 0]
    /\ results' = [i \in DOMAIN txs |->
                      IF preconditions(txs[i]).ok THEN None ELSE preconditions(txs[i])]
    /\ completion' = SelectSeq([i \in DOMAIN txs |-> i], LAMBDA i : ~preconditions(txs[i]).ok)
    /\ sim_requests' = [i \in DOMAIN txs |-> <<>>]
    /\ bn_reply' = [i \in DOMAIN txs |-> NoReply]
    /\ al_reply' = [i \in DOMAIN txs |-> NoReply]
    /\ UNCHANGED << driverVars, solverVars, roundVars, txs, output >>

\* self.block_number(..).await? of transaction i: on an error the future is
\* done, else it issues the simulation request
BlockNumberReply(i, reply) ==
    /\ est_pc = "pending"
    /\ fut[i] = "block_number"
    /\ bn_reply' = [bn_reply EXCEPT ![i] = Got(reply)]
    /\ IF reply.ok
       THEN /\ sim_requests' = [sim_requests EXCEPT ![i] =
                    Append(@, tenderly_request(preconditions(txs[i]).value, reply.value))]
            /\ fut' = [fut EXCEPT ![i] = "access_list"]
            /\ UNCHANGED << results, completion >>
       ELSE /\ results' = [results EXCEPT ![i] = reply]
            /\ fut' = [fut EXCEPT ![i] = "done"]
            /\ completion' = Append(completion, i)
            /\ UNCHANGED sim_requests
    /\ UNCHANGED << driverVars, solverVars, roundVars, txs, est_pc, bn_calls, al_reply, output >>

\* self.access_list(..).await? of transaction i and the rest of its future
AccessListReply(i, reply) ==
    /\ est_pc = "pending"
    /\ fut[i] = "access_list"
    /\ al_reply' = [al_reply EXCEPT ![i] = Got(reply)]
    /\ results' = [results EXCEPT ![i] =
                      IF reply.ok THEN access_list_result(deserialize_response(reply.value))
                      ELSE reply]
    /\ fut' = [fut EXCEPT ![i] = "done"]
    /\ completion' = Append(completion, i)
    /\ UNCHANGED << driverVars, solverVars, roundVars, txs, est_pc, bn_calls, sim_requests,
                    bn_reply, output >>

\* every future is done: join_all yields the vector
EstimateReturn ==
    /\ est_pc = "pending"
    /\ \A i \in DOMAIN txs : fut[i] = "done"
    /\ output' = join_all(results, completion)
    /\ est_pc' = "returned"
    /\ UNCHANGED << driverVars, solverVars, roundVars, txs, fut, bn_calls, sim_requests, bn_reply,
                    al_reply, results, completion >>

InitEst ==
    /\ api_key = NoneVal
    /\ config = [max_nr_exec_orders |-> 0, time_limit |-> 0]
    /\ native_token = 0
    /\ liquidity = [r \in Rounds |-> <<>>]
    /\ pc = [r \in Rounds |-> "idle"]
    /\ RoundsIdle
    /\ DriverIdle
    /\ txs \in Batches
    /\ est_pc = "idle"
    /\ fut = <<>>
    /\ bn_calls = <<>>
    /\ sim_requests = <<>>
    /\ bn_reply = <<>>
    /\ al_reply = <<>>
    /\ results = <<>>
    /\ completion = <<>>
    /\ output = <<>>

NextEst ==
    \/ EstimateStart
    \/ \E i \in DOMAIN txs, reply \in BlockNumberReplies : BlockNumberReply(i, reply)
    \/ \E i \in DOMAIN txs, reply \in AccessListReplies : AccessListReply(i, reply)
    \/ EstimateReturn

SpecEst == InitEst /\ [][NextEst]_vars

\* ------------------------------------------------------------------------
\* The settlement execution boundary: the test of /solve and /settle
\* ------------------------------------------------------------------------

\* the fixed solving time buffer (section 4.7 of the specification), seconds
SolvingTimeBuffer == 1

\* how many transactions others have mined on the chain while the test runs
MaxOthers == 1

\* chrono::Duration::days, in seconds
Days(n) == n * 86400

\* the values the test starts from: the faked time, the gas price of the
\* node, the amounts and the fee of the blockchain setup, the balance of the
\* solver account and the gas a settlement transaction uses
Nows == { 0, 1000 }
GasPrices == { 1, 2 }
UserFees == { 0, 1 }
InAmounts == { 5, 6 }
OutAmounts == { 4 }
SolverBalances == { 20, 30 }
GasUsed == { 1, 2 }
SolutionIds == { 1, 2 }

\* what the trader receives of token B in a transaction of others
OtherReceipts == { 0, 3 }

\* the deadline the driver communicates to the solver (section 4.7)
solver_deadline(d) == d - SolvingTimeBuffer

\* the deadline of the request the solver of the test is set up to answer
expected_deadline_unreduced(d) == d

expected_deadline(d) == d - SolvingTimeBuffer

\* settle (section 4.7): one transaction of the solver account that pays its
\* fee and moves the balances of the trader per the trade
driver_settle(c, st, gas) ==
    [tx_count |-> c.tx_count + 1,
     balance |-> c.balance - gas * st.gas_price,
     token_a |-> c.token_a - st.token_a_in_amount - st.user_fee,
     token_b |-> c.token_b + st.token_b_out_amount]

\* the test is between its first and its last await
TestRunning == drv_pc \notin { "idle", "failed", "asserted", "panicked" }

OthersMined == Len(SelectSeq(mined, LAMBDA tx : tx.by = "other"))

\* the node the test reads from mines a transaction of the solver account
\* that is not the settlement of the test, while the test is suspended at an
\* await
OtherTransaction(gas, b) ==
    /\ TestRunning
    /\ OthersMined < MaxOthers
    /\ chain.balance >= gas * setup.gas_price
    /\ chain' = [chain EXCEPT !.tx_count = @ + 1,
                              !.balance = @ - gas * setup.gas_price,
                              !.token_b = @ + b]
    /\ mined' = Append(mined, [by |-> "other", at |-> drv_pc])
    /\ UNCHANGED << solverVars, roundVars, estVars, now, deadline, setup, drv_pc,
                    solver_reqs, solutions, solution, old, new, asserts >>

\* client.solve(SOLVER_NAME, {.., "deadline": deadline}): the driver sends
\* its request to the solver
ClientSolve ==
    /\ drv_pc = "start"
    /\ solver_reqs' = Append(solver_reqs, [deadline |-> solver_deadline(deadline)])
    /\ drv_pc' = "solving"
    /\ UNCHANGED << solverVars, roundVars, estVars, now, deadline, setup, solutions,
                    solution, chain, mined, old, new, asserts >>

\* the solver of the test answers the request it was set up for with its
\* solution and the driver returns a solution id; any other request is not
\* answered and the test fails at solution.get("id").unwrap()
SolverAnswers(id) ==
    /\ drv_pc = "solving"
    /\ IF solver_reqs[Len(solver_reqs)].deadline = expected_deadline(deadline)
       THEN /\ solutions' = solutions \cup { id }
            /\ solution' = Some(id)
            /\ drv_pc' = "solved"
       ELSE /\ drv_pc' = "failed"
            /\ UNCHANGED << solutions, solution >>
    /\ UNCHANGED << solverVars, roundVars, estVars, now, deadline, setup, solver_reqs,
                    chain, mined, old, new, asserts >>

\* solution_id, and old_tx_count = web3.eth().transaction_count(..).await
ReadOldTxCount ==
    /\ drv_pc = "solved"
    /\ old' = [old EXCEPT !.tx_count = chain.tx_count]
    /\ drv_pc' = "old_tx_count"
    /\ UNCHANGED << solverVars, roundVars, estVars, now, deadline, setup, solver_reqs,
                    solutions, solution, chain, mined, new, asserts >>

\* old_balance = web3.eth().balance(..).await
ReadOldBalance ==
    /\ drv_pc = "old_tx_count"
    /\ old' = [old EXCEPT !.balance = chain.balance]
    /\ drv_pc' = "old_balance"
    /\ UNCHANGED << solverVars, roundVars, estVars, now, deadline, setup, solver_reqs,
                    solutions, solution, chain, mined, new, asserts >>

\* old_token_a = token_a.balance_of(admin).call().await
ReadOldTokenA ==
    /\ drv_pc = "old_balance"
    /\ old' = [old EXCEPT !.token_a = chain.token_a]
    /\ drv_pc' = "old_token_a"
    /\ UNCHANGED << solverVars, roundVars, estVars, now, deadline, setup, solver_reqs,
                    solutions, solution, chain, mined, new, asserts >>

\* old_token_b = token_b.balance_of(admin).call().await
ReadOldTokenB ==
    /\ drv_pc = "old_token_a"
    /\ old' = [old EXCEPT !.token_b = chain.token_b]
    /\ drv_pc' = "read"
    /\ UNCHANGED << solverVars, roundVars, estVars, now, deadline, setup, solver_reqs,
                    solutions, solution, chain, mined, new, asserts >>

\* settle is called a second time
ClientSettle_twice(gas) ==
    /\ drv_pc = "read"
    /\ solution.val \in solutions
    /\ chain' = driver_settle(driver_settle(chain, setup, gas), setup, gas)
    /\ mined' = Append(mined, [by |-> "settle", at |-> drv_pc])
    /\ drv_pc' = "settled"
    /\ UNCHANGED << solverVars, roundVars, estVars, now, deadline, setup, solver_reqs,
                    solutions, solution, old, new, asserts >>

\* the user fee is not taken from the trader
ClientSettle_without_user_fee(gas) ==
    /\ drv_pc = "read"
    /\ solution.val \in solutions
    /\ chain' = driver_settle(chain, [setup EXCEPT !.user_fee = 0], gas)
    /\ mined' = Append(mined, [by |-> "settle", at |-> drv_pc])
    /\ drv_pc' = "settled"
    /\ UNCHANGED << solverVars, roundVars, estVars, now, deadline, setup, solver_reqs,
                    solutions, solution, old, new, asserts >>

\* client.settle(SOLVER_NAME, solution_id).await
ClientSettle(gas) ==
    /\ drv_pc = "read"
    /\ solution.val \in solutions
    /\ chain' = driver_settle(chain, setup, gas)
    /\ mined' = Append(mined, [by |-> "settle", at |-> drv_pc])
    /\ drv_pc' = "settled"
    /\ UNCHANGED << solverVars, roundVars, estVars, now, deadline, setup, solver_reqs,
                    solutions, solution, old, new, asserts >>

\* new_tx_count = web3.eth().transaction_count(..).await
ReadNewTxCount ==
    /\ drv_pc = "settled"
    /\ new' = [new EXCEPT !.tx_count = chain.tx_count]
    /\ drv_pc' = "new_tx_count"
    /\ UNCHANGED << solverVars, roundVars, estVars, now, deadline, setup, solver_reqs,
                    solutions, solution, chain, mined, old, asserts >>

\* new_balance = web3.eth().balance(..).await
ReadNewBalance ==
    /\ drv_pc = "new_tx_count"
    /\ new' = [new EXCEPT !.balance = chain.balance]
    /\ drv_pc' = "new_balance"
    /\ UNCHANGED << solverVars, roundVars, estVars, now, deadline, setup, solver_reqs,
                    solutions, solution, chain, mined, old, asserts >>

\* new_token_a = token_a.balance_of(admin).call().await
ReadNewTokenA ==
    /\ drv_pc = "new_balance"
    /\ new' = [new EXCEPT !.token_a = chain.token_a]
    /\ drv_pc' = "new_token_a"
    /\ UNCHANGED << solverVars, roundVars, estVars, now, deadline, setup, solver_reqs,
                    solutions, solution, chain, mined, old, asserts >>

\* new_token_b = token_b.balance_of(admin).call().await and the four
\* assertions in their order: the first that fails panics, so an assertion
\* is recorded as held when it and all before it held
AssertNew ==
    /\ drv_pc = "new_token_a"
    /\ new' = [new EXCEPT !.token_b = chain.token_b]
    /\ LET tx_count_eq == new.tx_count = old.tx_count + 1
           balance_lt == new.balance < old.balance
           token_a_eq == new.token_a
                            = old.token_a - setup.token_a_in_amount - setup.user_fee
           token_b_eq == chain.token_b = old.token_b + setup.token_b_out_amount
       IN /\ asserts' =
                [tx_count |-> tx_count_eq,
                 balance |-> tx_count_eq /\ balance_lt,
                 token_a |-> tx_count_eq /\ balance_lt /\ token_a_eq,
                 token_b |-> tx_count_eq /\ balance_lt /\ token_a_eq /\ token_b_eq]
          /\ drv_pc' =
                IF tx_count_eq /\ balance_lt /\ token_a_eq /\ token_b_eq
                THEN "asserted" ELSE "panicked"
    /\ UNCHANGED << solverVars, roundVars, estVars, now, deadline, setup, solver_reqs,
                    solutions, solution, chain, mined, old >>

InitDriver ==
    /\ api_key = NoneVal
    /\ config = [max_nr_exec_orders |-> 0, time_limit |-> 0]
    /\ native_token = 0
    /\ liquidity = [r \in Rounds |-> <<>>]
    /\ pc = [r \in Rounds |-> "idle"]
    /\ RoundsIdle
    /\ EstIdle
    /\ drv_pc = "start"
    /\ now \in Nows
    /\ deadline = now + Days(30)
    /\ setup \in [user_fee : UserFees, token_a_in_amount : InAmounts,
                  token_b_out_amount : OutAmounts, gas_price : GasPrices]
    /\ solver_reqs = <<>>
    /\ solutions = {}
    /\ solution = None
    /\ \E b \in SolverBalances, n \in { 0, 7 } :
          chain = [tx_count |-> n, balance |-> b, token_a |-> 10, token_b |-> 0]
    /\ mined = <<>>
    /\ old = NoChain
    /\ new = NoChain
    /\ asserts = NoAsserts

NextDriver ==
    \/ ClientSolve
    \/ \E id \in SolutionIds : SolverAnswers(id)
    \/ ReadOldTxCount
    \/ ReadOldBalance
    \/ ReadOldTokenA
    \/ ReadOldTokenB
    \/ \E gas \in GasUsed : ClientSettle(gas)
    \/ ReadNewTxCount
    \/ ReadNewBalance
    \/ ReadNewTokenA
    \/ AssertNew
    \/ \E gas \in GasUsed, b \in OtherReceipts : OtherTransaction(gas, b)

SpecDriver == InitDriver /\ [][NextDriver]_vars

\* ------------------------------------------------------------------------
\* Properties
\* ------------------------------------------------------------------------

\* the native token and the opposite side of every pool with a native side
OneHopSet(amms, native) ==
    { native } \cup
    { t \in Tokens : \E i \in DOMAIN amms :
        amms[i].tokens = <<native, t>> \/ amms[i].tokens = <<t, native>> }

\* C1: remove_orders_without_native_connection retains a limit order if and
\* only if its buy token or its sell token is in the one-hop set: the orders
\* left are exactly the input orders with a token in the set, in their order,
\* the pools are left alone, and the example of the test keeps its first four
\* orders.
C1_PruneOneHop ==
    \A r \in Rounds :
        pc[r] = "prepared" =>
            LET input == split_liquidity(liquidity[r])
                R == OneHopSet(input[2], native_token)
                InR(o) == o.buy_token \in R \/ o.sell_token \in R
            IN /\ orders[r][1] = SelectSeq(input[1], InR)
               /\ orders[r][2] = input[2]
               /\ (liquidity[r] = TestLiquidity /\ native_token = 0
                    => orders[r][1] = SubSeq(TestOrders, 1, 4))

\* the example of the test pruned to four orders
C1_Witness ==
    /\ pc[1] = "prepared"
    /\ liquidity[1] = TestLiquidity
    /\ native_token = 0
    /\ Len(orders[1][1]) = 4

\* the token identifiers a model mentions
ModelOrderTokens(m) ==
    UNION { { m.orders[k].sell_token, m.orders[k].buy_token } : k \in DOMAIN m.orders }

ModelPoolTokens(m) ==
    UNION { { m.uniswaps[k].token1, m.uniswaps[k].token2 } : k \in DOMAIN m.uniswaps }

ModelTokens(m) == DOMAIN m.tokens \cup ModelOrderTokens(m) \cup ModelPoolTokens(m)

\* the tokens one order or pool of the model away from a token of S
ModelNeighbours(m, S) ==
    { m.orders[k].sell_token : k \in { j \in DOMAIN m.orders : m.orders[j].buy_token \in S } }
    \cup { m.orders[k].buy_token : k \in { j \in DOMAIN m.orders : m.orders[j].sell_token \in S } }
    \cup { m.uniswaps[k].token1 : k \in { j \in DOMAIN m.uniswaps : m.uniswaps[j].token2 \in S } }
    \cup { m.uniswaps[k].token2 : k \in { j \in DOMAIN m.uniswaps : m.uniswaps[j].token1 \in S } }

RECURSIVE ModelReach(_, _)
\* the tokens connected to S through the orders and pools of the model
ModelReach(m, S) ==
    LET next == S \cup ModelNeighbours(m, S)
    IN IF next = S THEN S ELSE ModelReach(m, next)

ConnectedToNative(m) == ModelReach(m, { token_to_string(native_token) })

\* C2 as stated: in the model built by prepare_model every token of the
\* tokens map, of every order and of every pool is the native token or is
\* connected to it through the orders and pools of that model.
C2_NoIsolatedToken ==
    \A r \in Rounds :
        pc[r] = "prepared" => ModelTokens(model[r]) \subseteq ConnectedToNative(model[r])

\* C2 amended: in the model built by prepare_model both tokens of every order
\* are the native token or connected to it through the orders and pools of
\* that model (tokens that occur only in pools or in the tokens map need not be).
C2_OrdersConnected ==
    \A r \in Rounds :
        pc[r] = "prepared" =>
            ModelOrderTokens(model[r]) \subseteq ConnectedToNative(model[r])

\* a model with an order one of whose tokens is outside the one-hop set, and
\* with a pool that is not connected to the native token
C2_Witness ==
    /\ pc[1] = "prepared"
    /\ \E k \in DOMAIN model[1].orders :
          context[1].limit_orders[k].sell_token
              \notin OneHopSet(orders[1][2], native_token)
    /\ ~(ModelPoolTokens(model[1]) \subseteq ConnectedToNative(model[1]))

\* the round's call of send has returned an error
SendFailed(r) == pc[r] = "done" /\ converted[r] = 0

HasPart(message, tag, val) ==
    \E i \in DOMAIN message : message[i].tag = tag /\ message[i].val = val

HasTag(message, tag) == \E i \in DOMAIN message : message[i].tag = tag

\* the message embeds the query string, the request body and the response body
EmbedsContext(message, query, body, txt) ==
    /\ HasPart(message, "query", query)
    /\ HasPart(message, "body", body)
    /\ HasPart(message, "text", txt)

\* C3 as stated: solve returns Ok(None) whenever the solver call succeeds and
\* the conversion of the response yields no trades.
C3_NoTradesIsNone ==
    \A r \in Rounds :
        ( /\ pc[r] = "done"
          /\ converted[r] = 1
          /\ convert_settlement(text[r].value, context[r]).ok
          /\ DOMAIN convert_settlement(text[r].value, context[r]).value.trades = {} )
        => (result[r].ok /\ ~result[r].value.some)

\* C4 as stated: every failure of send returns an error whose message embeds
\* the request query string, the request body and the response body.
C4_EveryFailureEmbeds ==
    \A r \in Rounds :
        SendFailed(r) =>
            EmbedsContext(result[r].err, add_to_query(config), to_json(model[r]), text[r])

\* C4, what send does instead: only a failure after the response body was
\* read (a non-success status, a body that does not deserialize) returns an
\* error whose message embeds the query string, the request body and the
\* response body; a failure to send the request or to read the response body
\* returns an error without the request body, which send has built by then,
\* and without response body.
C4_FailureAfterBodyEmbeds ==
    \A r \in Rounds :
        SendFailed(r) =>
            /\ ~result[r].ok
            /\ IF text[r] # NoText
               THEN EmbedsContext(result[r].err, add_to_query(config),
                                  to_json(model[r]), text[r])
               ELSE ~HasTag(result[r].err, "body") /\ ~HasTag(result[r].err, "text")

\* send failed on a body that is no JSON, under a success status
C4_Witness ==
    /\ SendFailed(1)
    /\ status[1] = 200
    /\ text[1] = GarbageText
    /\ SendFailed(2)
    /\ status[2] = 0

\* C5: a response whose status is not a success makes send and solve return
\* an error, also when the body is a well-formed settled model, and
\* convert_settlement is not called in that round; it is called only after a
\* success status and a body that deserialized.
C5_NonSuccessIsHardFailure ==
    \A r \in Rounds :
        /\ ( pc[r] = "done" /\ status[r] # 0 /\ status[r] \notin 200..299 )
            => ( /\ ~result[r].ok
                 /\ converted[r] = 0
                 /\ ~HasTag(log[r], "settled")
                 /\ (text[r] # NoText => HasPart(result[r].err, "status", status[r])) )
        /\ converted[r] # 0
            => ( /\ converted[r] = 1
                 /\ status[r] \in 200..299
                 /\ text[r].format = "json"
                 /\ text[r].shape = "SettledBatchAuctionModel" )

\* a 404 whose body is the settled model that would fill the order of the round
C5_Witness ==
    /\ pc[1] = "done"
    /\ liquidity[1] = RealSolverLiquidity
    /\ status[1] = 404
    /\ text[1] = SettledText(SettledFirstOrder(2, 1))
    /\ ~result[1].ok

\* the api keys the diagnostics are compared over
AltKeys == { NoneVal, "secret-1", "secret-2" }

\* C6: the api key never reaches diagnostic output: the query, the request
\* body, what is traced and the error are what they would be with any other
\* api key (None included); the key is only in the X-API-KEY header of the
\* request, which is marked sensitive.
C6_ApiKeyNotInDiagnostics ==
    \A r \in Rounds :
        pc[r] \in { "sent", "reading", "done" } =>
            /\ request[r].http.headers =
                  IF api_key = NoneVal THEN {}
                  ELSE { [name |-> "X-API-KEY", value |-> api_key, sensitive |-> TRUE] }
            /\ \A key \in AltKeys :
                  LET alt == send_start(key, config, model[r])
                  IN /\ request[r].query = alt.query
                     /\ request[r].body = alt.body
                     /\ request[r].http.query = alt.http.query
                     /\ request[r].http.body = alt.http.body
                     /\ log[r][1] = Part("request", alt.body)
                     /\ (pc[r] = "done" /\ text[r] # NoText) =>
                            /\ result[r] = solve_finish(
                                   send_finish(alt.query, alt.body, status[r], text[r]),
                                   context[r])
                            /\ log[r][2] = Part("response", text[r])
                     /\ (pc[r] = "done" /\ status[r] = 0) =>
                            result[r] = Err(send_error(alt.query))

\* a round with an api key whose send failed on the status
C6_Witness ==
    /\ api_key = "secret-1"
    /\ pc[1] = "done"
    /\ status[1] = 404
    /\ text[1] # NoText
    /\ ~result[1].ok

\* C7: one call of solve issues at most one POST: none before the request is
\* built, one from then on, also after the request, the status or the
\* deserialization has failed, and the error is what solve returns.
C7_AtMostOnePost ==
    \A r \in Rounds :
        /\ posts[r] <= 1
        /\ pc[r] \in { "start", "panicked" } => posts[r] = 0
        /\ pc[r] \in { "sent", "reading", "done" } => posts[r] = 1
        /\ SendFailed(r) => ~result[r].ok

\* one round failed to send, the other got a non-success status
C7_Witness ==
    /\ SendFailed(1)
    /\ status[1] = 0
    /\ posts[1] = 1
    /\ SendFailed(2)
    /\ status[2] = 404
    /\ posts[2] = 1

\* what the estimation of one transaction comes to, given the transaction and
\* the simulator's replies to it
ExpectedOutcome(tx, bn, al) ==
    IF ~tx.data.some THEN Err("transaction data does not exist")
    ELSE IF ~tx.from.some THEN Err("transaction from does not exist")
    ELSE IF ~tx.to.some THEN Err("transaction to does not exist")
    ELSE IF ~bn.reply.ok THEN Err(bn.reply.err)
    ELSE IF ~al.reply.ok THEN Err(al.reply.err)
    ELSE IF Len(al.reply.value.generated_access_list) = 0 THEN Err("empty access list")
    ELSE Ok([k \in 1..Len(al.reply.value.generated_access_list) |->
                [address |-> al.reply.value.generated_access_list[k].address,
                 storage_keys |->
                    IF al.reply.value.generated_access_list[k].storage_keys.some
                    THEN al.reply.value.generated_access_list[k].storage_keys.val
                    ELSE <<>>]])

\* C8: estimate_access_lists returns one result per input transaction in
\* input order, whatever the order in which the simulator calls complete:
\* the vector is as long as the batch and its entry i is the outcome of the
\* estimation of transaction i.
C8_OneResultPerTxInOrder ==
    est_pc = "returned" =>
        /\ Len(output) = Len(txs)
        /\ \A i \in DOMAIN txs :
              output[i] = ExpectedOutcome(txs[i], bn_reply[i], al_reply[i])

\* two estimations that completed in reverse order with different outcomes
C8_Witness ==
    /\ est_pc = "returned"
    /\ Len(txs) = 2
    /\ completion = << 2, 1 >>
    /\ output[1].ok
    /\ ~output[2].ok

LacksTo(tx) == ~tx.to.some

Complete(tx) == tx.data.some /\ tx.from.some /\ tx.to.some

\* C9: failures are isolated per transaction: the call returns one result
\* per transaction, with a failure at the position of a transaction without
\* `to`; whatever fails for one transaction (a missing field, the
\* block-number query, the simulation, an empty list), every complete sibling
\* has had its block-number query and, after a block number, its simulation
\* issued and answered, and is Ok exactly when its own replies give a
\* non-empty list.
C9_FailuresIsolated ==
    est_pc = "returned" =>
        /\ Len(output) = Len(txs)
        /\ \A i \in DOMAIN txs : LacksTo(txs[i]) => ~output[i].ok
        /\ \A i \in DOMAIN txs :
              ~output[i].ok =>
                 \A j \in DOMAIN txs \ {i} :
                    Complete(txs[j]) =>
                       /\ bn_calls[j] = 1
                       /\ bn_reply[j].got
                       /\ bn_reply[j].reply.ok =>
                             (Len(sim_requests[j]) = 1 /\ al_reply[j].got)
                       /\ output[j].ok <=>
                             ( /\ bn_reply[j].reply.ok
                               /\ al_reply[j].reply.ok
                               /\ al_reply[j].reply.value.generated_access_list # <<>> )

\* the first transaction has no `to`, the second one was estimated
C9_Witness ==
    /\ est_pc = "returned"
    /\ Len(txs) = 2
    /\ LacksTo(txs[1])
    /\ Complete(txs[2])
    /\ ~output[1].ok
    /\ output[2].ok

\* C10: a transaction that lacks input data, `from` or `to` fails fast: its
\* result is a failure and neither the block-number query nor the simulation
\* request is issued for it.
C10_FailFast ==
    \A i \in DOMAIN txs :
        ( est_pc # "idle" /\ ~Complete(txs[i]) ) =>
            /\ fut[i] = "done"
            /\ ~results[i].ok
            /\ bn_calls[i] = 0
            /\ ~bn_reply[i].got
            /\ sim_requests[i] = <<>>
            /\ ~al_reply[i].got
            /\ est_pc = "returned" => ~output[i].ok

\* a transaction without `from` has failed while its sibling awaits the
\* block number it has asked for
C10_Witness ==
    /\ est_pc = "pending"
    /\ Len(txs) = 2
    /\ ~txs[1].from.some
    /\ txs[1].data.some
    /\ txs[1].to.some
    /\ fut[1] = "done"
    /\ fut[2] = "block_number"
    /\ bn_calls[2] = 1

\* C11: no result of estimate_access_lists (or of estimate_access_list, the
\* batch of one) is an Ok holding an empty access list: a simulation response
\* with zero entries gives a failure for that transaction, and every Ok result
\* has at least one entry.
C11_NoEmptyOk ==
    est_pc = "returned" =>
        /\ \A i \in DOMAIN txs :
              /\ output[i].ok => Len(output[i].value) >= 1
              /\ ( /\ al_reply[i].got
                   /\ al_reply[i].reply.ok
                   /\ Len(al_reply[i].reply.value.generated_access_list) = 0 )
                 => ( ~output[i].ok /\ output[i].err = "empty access list" )
        /\ Len(txs) = 1 =>
              ( estimate_access_list(output).ok
                    => Len(estimate_access_list(output).value) >= 1 )

\* a batch of two: the simulator found no entry for the first transaction
\* and one for the second
C11_Witness ==
    /\ est_pc = "returned"
    /\ Len(txs) = 2
    /\ al_reply[1].got
    /\ al_reply[1].reply.ok
    /\ al_reply[1].reply.value.generated_access_list = <<>>
    /\ ~output[1].ok
    /\ output[2].ok

\* the identifiers of the token addresses, written out
ExpectedTokenId(t) ==
    CASE t = 0 -> "t0000000000000000000000000000000000000000"
      [] t = 1 -> "t0000000000000000000000000000000000000001"
      [] t = 10 -> "t000000000000000000000000000000000000000a"
      [] t = 27 -> "t000000000000000000000000000000000000001b"

\* the distinct token addresses of a snapshot
SnapshotTokens(l) ==
    { t \in Tokens :
        \E i \in DOMAIN l :
            \/ l[i].variant = "Limit" /\ t \in { l[i].limit.sell_token, l[i].limit.buy_token }
            \/ l[i].variant = "Amm" /\ t \in { l[i].amm.tokens[1], l[i].amm.tokens[2] } }

\* C12: the token identifier mapping is injective and every identifier starts
\* with a letter: map_tokens_for_solver has as many entries as the liquidity
\* has distinct token addresses, each key is 't' followed by the 40 lowercase
\* hex digits of its address, and the value under a key is that address.
C12_TokenIdsInjective ==
    \A r \in Rounds :
        pc[r] = "prepared" =>
            LET addrs == SnapshotTokens(liquidity[r])
                ids == context[r].tokens
            IN /\ Cardinality(DOMAIN ids) = Cardinality(addrs)
               /\ \A t \in addrs :
                     /\ ExpectedTokenId(t) \in DOMAIN ids
                     /\ ids[ExpectedTokenId(t)] = t
               /\ \A k \in DOMAIN ids :
                     /\ ids[k] \in addrs
                     /\ k = ExpectedTokenId(ids[k])
                     /\ Len(k) = HexWidth + 1

\* the pool chain: five items over four addresses, two of them with a letter
\* among their hex digits
C12_Witness ==
    /\ pc[1] = "prepared"
    /\ liquidity[1] = ChainLiquidity
    /\ Cardinality(DOMAIN context[1].tokens) = 4
    /\ context[1].tokens["t000000000000000000000000000000000000001b"] = 27

\* C13: in every model built by prepare_model every token identifier used as
\* sell_token or buy_token of an order or as token1 or token2 of a pool has
\* its entry in the model's tokens map, and resolves in the context's tokens
\* map to the address of that token of the order or pool.
C13_UsedTokensHaveEntries ==
    \A r \in Rounds :
        pc[r] = "prepared" =>
            LET m == model[r]
                ctx == context[r]
            IN /\ \A k \in DOMAIN m.orders :
                     /\ m.orders[k].sell_token \in DOMAIN m.tokens
                     /\ m.orders[k].buy_token \in DOMAIN m.tokens
                     /\ m.orders[k].sell_token \in DOMAIN ctx.tokens
                     /\ m.orders[k].buy_token \in DOMAIN ctx.tokens
                     /\ ctx.tokens[m.orders[k].sell_token] = ctx.limit_orders[k].sell_token
                     /\ ctx.tokens[m.orders[k].buy_token] = ctx.limit_orders[k].buy_token
               /\ \A k \in DOMAIN m.uniswaps :
                     /\ m.uniswaps[k].token1 \in DOMAIN m.tokens
                     /\ m.uniswaps[k].token2 \in DOMAIN m.tokens
                     /\ m.uniswaps[k].token1 \in DOMAIN ctx.tokens
                     /\ m.uniswaps[k].token2 \in DOMAIN ctx.tokens
                     /\ ctx.tokens[m.uniswaps[k].token1] = ctx.amm_orders[k].tokens[1]
                     /\ ctx.tokens[m.uniswaps[k].token2] = ctx.amm_orders[k].tokens[2]

\* a model with orders and a pool whose tokens map also has a token that no
\* order and no pool of the model uses
C13_Witness ==
    /\ pc[1] = "prepared"
    /\ DOMAIN model[1].orders # {}
    /\ DOMAIN model[1].uniswaps # {}
    /\ DOMAIN model[1].tokens \ (ModelOrderTokens(model[1]) \cup ModelPoolTokens(model[1])) # {}

\* the decimal strings of the first indices, written out
DecimalKeys == << "0", "1", "2", "3", "4", "5", "6", "7", "8", "9", "10", "11" >>

\* C14: for every snapshot model.orders has as many entries as limit orders
\* are retained by pruning, its keys are the decimal strings 0..n-1, and the
\* entry under the key i carries the token identifiers, the amounts, the
\* partial-fill flag and is_sell_order (true exactly for kind Sell) of the
\* retained order at position i.
C14_OrderIndexKeys ==
    \A r \in Rounds :
        pc[r] = "prepared" =>
            LET retained == orders[r][1]
                n == Len(retained)
                m == model[r].orders
            IN /\ n <= Len(DecimalKeys)
               /\ Cardinality(DOMAIN m) = n
               /\ DOMAIN m = { DecimalKeys[i] : i \in 1..n }
               /\ \A i \in 1..n :
                     LET e == m[DecimalKeys[i]]
                         o == retained[i]
                     IN /\ e.sell_token = ExpectedTokenId(o.sell_token)
                        /\ e.buy_token = ExpectedTokenId(o.buy_token)
                        /\ e.sell_amount = o.sell_amount
                        /\ e.buy_amount = o.buy_amount
                        /\ e.allow_partial_fill = o.partially_fillable
                        /\ e.is_sell_order = (o.kind = Sell)

\* a snapshot of which pruning removes an order and retains two, one of them
\* a buy order
C14_Witness ==
    /\ pc[1] = "prepared"
    /\ Len(orders[1][1]) >= 2
    /\ Len(orders[1][1]) < Len(SelectSeq(liquidity[1], IsLimit))
    /\ \E k \in DOMAIN model[1].orders : ~model[1].orders[k].is_sell_order
    /\ \E k \in DOMAIN model[1].orders : model[1].orders[k].is_sell_order

\* C15: in the pair returned by prepare_model the orders of the model and
\* the limit orders of the context have the same keys, as have the pools of
\* the model and the amm orders of the context; each index resolves in the
\* context to the original LimitOrder or AmmOrder of the snapshot, and the
\* model entry under that index is the one derived from it.
C15_ModelContextRoundTrip ==
    \A r \in Rounds :
        pc[r] = "prepared" =>
            LET m == model[r]
                ctx == context[r]
                retained == orders[r][1]
                amms == orders[r][2]
            IN /\ DOMAIN m.orders = DOMAIN ctx.limit_orders
               /\ DOMAIN m.uniswaps = DOMAIN ctx.amm_orders
               /\ DOMAIN ctx.limit_orders = { DecimalKeys[i] : i \in 1..Len(retained) }
               /\ DOMAIN ctx.amm_orders = { DecimalKeys[i] : i \in 1..Len(amms) }
               /\ \A i \in 1..Len(retained) :
                     LET o == ctx.limit_orders[DecimalKeys[i]]
                         e == m.orders[DecimalKeys[i]]
                     IN /\ o = retained[i]
                        /\ \E j \in DOMAIN liquidity[r] : liquidity[r][j] = Limit(o)
                        /\ e = [sell_token |-> ExpectedTokenId(o.sell_token),
                                buy_token |-> ExpectedTokenId(o.buy_token),
                                sell_amount |-> o.sell_amount,
                                buy_amount |-> o.buy_amount,
                                allow_partial_fill |-> o.partially_fillable,
                                is_sell_order |-> (o.kind = Sell)]
               /\ \A i \in 1..Len(amms) :
                     LET a == ctx.amm_orders[DecimalKeys[i]]
                         e == m.uniswaps[DecimalKeys[i]]
                     IN /\ a = amms[i]
                        /\ a = SelectSeq(liquidity[r], IsAmm)[i].amm
                        /\ e.token1 = ExpectedTokenId(a.tokens[1])
                        /\ e.token2 = ExpectedTokenId(a.tokens[2])
                        /\ e.balance1 = a.reserves[1]
                        /\ e.balance2 = a.reserves[2]
                        /\ e.fee[1] * a.fee[2] = a.fee[1] * e.fee[2]
                        /\ e.mandatory = FALSE

\* the mixed snapshot: its first limit order is pruned, so index 0 resolves
\* to its second limit order, and index 1 of the pools to its second pool
C15_Witness ==
    /\ pc[1] = "prepared"
    /\ liquidity[1] = MixedLiquidity
    /\ native_token = 0
    /\ DOMAIN context[1].limit_orders = { "0", "1" }
    /\ context[1].limit_orders["0"] = MixedLiquidity[3].limit
    /\ context[1].amm_orders["1"] = MixedLiquidity[4].amm
    /\ model[1].orders["1"].is_sell_order = FALSE

\* C16: the executed amount of a converted trade of a sell order with
\* sell_amount S never exceeds S and equals S when the order is not partially
\* fillable; a response reporting exec_sell_amount = S with exec_buy_amount > 0
\* for the sell order of tests::real_solver is accepted, and a response
\* reporting exec_sell_amount > S for a sell order makes solve fail.
C16_ConversionRespectsBounds ==
    \A r \in Rounds :
        (pc[r] = "done" /\ converted[r] = 1) =>
            LET settled == text[r].value
                ctx == context[r]
            IN /\ (result[r].ok /\ result[r].value.some) =>
                     \A idx \in DOMAIN result[r].value.settlement.trades :
                        LET trade == result[r].value.settlement.trades[idx]
                        IN trade.order.kind = Sell =>
                              /\ trade.executed_amount = settled.orders[idx].exec_sell_amount
                              /\ trade.executed_amount <= trade.order.sell_amount
                              /\ ~trade.order.partially_fillable =>
                                    trade.executed_amount = trade.order.sell_amount
               /\ (liquidity[r] = RealSolverLiquidity /\ settled = SettledFirstOrder(2, 1)) =>
                     /\ result[r].ok
                     /\ result[r].value.some
                     /\ result[r].value.settlement.trades["0"].executed_amount = 2
               /\ (\E idx \in DOMAIN settled.orders \cap DOMAIN ctx.limit_orders :
                        /\ ctx.limit_orders[idx].kind = Sell
                        /\ settled.orders[idx].exec_sell_amount
                               > ctx.limit_orders[idx].sell_amount) =>
                     ~result[r].ok

\* two rounds on the snapshot of tests::real_solver: the response executing
\* the whole sell amount was accepted, the one executing more was rejected
C16_Witness ==
    /\ pc[1] = "done" /\ pc[2] = "done"
    /\ liquidity[1] = RealSolverLiquidity /\ liquidity[2] = RealSolverLiquidity
    /\ converted[1] = 1 /\ converted[2] = 1
    /\ text[1].value = SettledFirstOrder(2, 1)
    /\ text[2].value = SettledFirstOrder(3, 1)
    /\ result[1].ok /\ result[1].value.some
    /\ result[1].value.settlement.trades["0"].executed_amount = 2
    /\ ~result[2].ok

\* the response names a token identifier, an order index or a pool index
\* that the context does not have
UnknownReference(settled, ctx) ==
    \/ \E id \in DOMAIN settled.prices : id \notin DOMAIN ctx.tokens
    \/ \E idx \in DOMAIN settled.orders : idx \notin DOMAIN ctx.limit_orders
    \/ \E idx \in DOMAIN settled.uniswaps : idx \notin DOMAIN ctx.amm_orders

\* C17: when the settled model returned by the solver references a token
\* identifier, an order index or a pool index that is absent from the context
\* built for the request, solve returns an error: no settlement is returned
\* with the unknown entry left out.
C17_ReferentialErrorAborts ==
    \A r \in Rounds :
        ( /\ pc[r] = "done"
          /\ converted[r] = 1
          /\ UnknownReference(text[r].value, context[r]) )
        => /\ ~result[r].ok
           /\ HasTag(result[r].err, "lit")

\* a round whose response priced an unknown token and a round whose response
\* updated an unknown pool have both failed
C17_Witness ==
    /\ pc[1] = "done" /\ pc[2] = "done"
    /\ converted[1] = 1 /\ converted[2] = 1
    /\ text[1].value = SettledUnknownToken
    /\ text[2].value = SettledUnknownPool
    /\ liquidity[2] = ChainLiquidity
    /\ ~result[1].ok /\ ~result[2].ok

\* a response executing an order under an unknown index has failed the round
\* although the snapshot has orders
C17_WitnessOrder ==
    /\ pc[1] = "done"
    /\ converted[1] = 1
    /\ text[1].value = SettledUnknownOrder
    /\ DOMAIN context[1].limit_orders # {}
    /\ ~result[1].ok

\* the model and the context of round r are those built from its own snapshot
OwnModelAndContext(r) ==
    IF pc[r] = "start"
    THEN model[r] = NoneVal /\ result[r] = NoneVal
    ELSE /\ model[r] = prepare_model(liquidity[r], native_token).model
         /\ context[r] = prepare_model(liquidity[r], native_token).context

\* the response of round r was converted with the context of its own snapshot
OwnConversion(r) ==
    (pc[r] = "done" /\ converted[r] = 1) =>
        result[r] = map_some(convert_settlement(
                        text[r].value, prepare_model(liquidity[r], native_token).context))

\* a step of one round leaves the other round and the solver as they are
StepsOfOneRound ==
    /\ UNCHANGED solverVars
    /\ \A r \in Rounds :
          pc'[r] # pc[r] =>
             \A q \in Rounds \ { r } :
                /\ pc'[q] = pc[q]
                /\ model'[q] = model[q]
                /\ request'[q] = request[q]
                /\ text'[q] = text[q]
                /\ result'[q] = result[q]

\* C18: when two solve calls on the same HttpSolver run interleaved, each
\* round holds the model and the context built from its own liquidity
\* snapshot and converts its response with that context; no step of a round
\* changes the model, the request, the response or the result of the other
\* round, and no step stores anything in the solver.
C18_RoundsDoNotInterfere ==
    /\ [](\A r \in Rounds : OwnModelAndContext(r) /\ OwnConversion(r))
    /\ [][StepsOfOneRound]_vars

\* both rounds received the same response on different snapshots and each
\* returned the trade of the order of its own snapshot
C18_Witness ==
    /\ pc[1] = "done" /\ pc[2] = "done"
    /\ liquidity[1] = RealSolverLiquidity
    /\ liquidity[2] = ChainLiquidity
    /\ text[1].value = SettledFirstOrder(2, 1)
    /\ text[2].value = SettledFirstOrder(2, 1)
    /\ result[1].ok /\ result[2].ok
    /\ result[1].value.settlement.trades["0"].order = RealSolverLiquidity[1].limit
    /\ result[2].value.settlement.trades["0"].order = ChainLiquidity[3].limit

\* C19: the request the solver receives for an auction carries the deadline
\* the driver's solve was called with minus the fixed solving time buffer,
\* never that deadline itself, and it is the request the solver of the test
\* is set up to answer.
C19_SolverDeadlineReduced ==
    /\ drv_pc # "failed"
    /\ \A i \in DOMAIN solver_reqs :
          /\ solver_reqs[i].deadline = now + Days(30) - SolvingTimeBuffer
          /\ solver_reqs[i].deadline + SolvingTimeBuffer = deadline
          /\ solver_reqs[i].deadline # deadline

\* the solver has answered the request of the driver and solve has returned
\* a solution id
C19_Witness ==
    /\ drv_pc = "solved"
    /\ Len(solver_reqs) = 1
    /\ now = 1000
    /\ solver_reqs[1].deadline = 2592999
    /\ solution.some

\* no transaction of others was mined after the test began to read the old
\* values
Undisturbed ==
    \A k \in DOMAIN mined :
        mined[k].by = "other" => mined[k].at \in { "start", "solving", "solved" }

\* the step in which the settlement transaction of settle is mined
SettleStep == drv_pc = "read" /\ drv_pc' = "settled"

\* C20: settle called with a solution id that solve returned increases the
\* transaction count of the solver account by exactly one and strictly
\* decreases its native-currency balance; when no other transaction is mined
\* between the reads of the test, its two assertions on them hold.
C20_SettleOneTransaction ==
    /\ [][SettleStep =>
              /\ solution.some
              /\ solution.val \in solutions
              /\ chain'.tx_count = chain.tx_count + 1
              /\ chain'.balance < chain.balance
              /\ chain'.balance >= 0]_vars
    /\ []((drv_pc \in { "asserted", "panicked" } /\ Undisturbed) =>
              (asserts.tx_count /\ asserts.balance))

\* settle was called on an account of which a transaction was mined before
\* the test read the old values: the count went from 8 to 9 and the balance
\* from 18 to 14
C20_Witness ==
    /\ drv_pc = "asserted"
    /\ Len(mined) = 2
    /\ mined[1].by = "other" /\ mined[2].by = "settle"
    /\ old.tx_count = 8 /\ new.tx_count = 9
    /\ old.balance = 18 /\ new.balance = 14
    /\ asserts.tx_count /\ asserts.balance

\* C21: the settlement transaction of a solution that fulfils the sell order
\* of the test (token A for token B, amounts a_in and b_out, user fee f)
\* takes a_in + f from the trader's balance of token A and adds b_out to the
\* trader's balance of token B, exactly; when no other transaction is mined
\* between the reads of the test, its two assertions on them hold.
C21_TraderBalancesMoveExactly ==
    /\ [][SettleStep =>
              /\ chain'.token_a
                    = chain.token_a - setup.token_a_in_amount - setup.user_fee
              /\ chain'.token_b = chain.token_b + setup.token_b_out_amount
              /\ chain'.token_a >= 0]_vars
    /\ []((drv_pc \in { "asserted", "panicked" } /\ Undisturbed) =>
              (drv_pc = "asserted" /\ asserts.token_a /\ asserts.token_b))

\* a settle with a user fee: token A went from 10 to 3 (a_in = 6, f = 1) and
\* token B from 0 to 4
C21_Witness ==
    /\ drv_pc = "asserted"
    /\ setup.user_fee = 1
    /\ setup.token_a_in_amount = 6
    /\ old.token_a = 10 /\ new.token_a = 3
    /\ old.token_b = 0 /\ new.token_b = 4
    /\ asserts.token_a /\ asserts.token_b

\* a transaction of others mined between the reads of old_tx_count and
\* old_balance: the test holds old values of two different chain states and
\* panics at its first assertion
OldReadsInterleaved ==
    /\ drv_pc = "panicked"
    /\ old = [tx_count |-> 7, balance |-> 18, token_a |-> 10, token_b |-> 0]
    /\ new.tx_count = 9
    /\ ~asserts.tx_count

\* a transaction of others mined between the reads of new_tx_count and
\* new_balance: the first three assertions hold and the last one panics
NewReadsInterleaved ==
    /\ drv_pc = "panicked"
    /\ old = [tx_count |-> 7, balance |-> 20, token_a |-> 10, token_b |-> 0]
    /\ new = [tx_count |-> 8, balance |-> 14, token_a |-> 4, token_b |-> 7]
    /\ asserts = [tx_count |-> TRUE, balance |-> TRUE, token_a |-> TRUE,
                  token_b |-> FALSE]

\* C22: per transaction the simulation request is issued only after the
\* block-number query of that transaction has succeeded, at most once, and
\* carries the block number that query returned, the network id of the
\* estimator, the from, to and input of the transaction and
\* generate_access_list = true; when the block-number query fails the result
\* of the transaction is that failure and no simulation request is issued.
C22_SimulationScopedToBlock ==
    est_pc # "idle" =>
        \A i \in DOMAIN txs :
            /\ Len(sim_requests[i]) <= 1
            /\ fut[i] = "access_list" => Len(sim_requests[i]) = 1
            /\ al_reply[i].got => Len(sim_requests[i]) = 1
            /\ Len(sim_requests[i]) = 1 =>
                  /\ bn_calls[i] = 1
                  /\ bn_reply[i].got
                  /\ bn_reply[i].reply.ok
                  /\ txs[i].data.some /\ txs[i].from.some /\ txs[i].to.some
                  /\ sim_requests[i][1] =
                        [network_id |-> "1",
                         block_number |-> bn_reply[i].reply.value.block_number,
                         from |-> txs[i].from.val,
                         input |-> txs[i].data.val,
                         to |-> txs[i].to.val,
                         generate_access_list |-> TRUE]
            /\ (bn_reply[i].got /\ ~bn_reply[i].reply.ok) =>
                  /\ sim_requests[i] = <<>>
                  /\ ~al_reply[i].got
                  /\ fut[i] = "done"
                  /\ results[i] = bn_reply[i].reply
                  /\ est_pc = "returned" => (~output[i].ok /\ output[i] = bn_reply[i].reply)

\* a batch of two has returned: the first transaction simulated at the block
\* 101 its query returned, the second had its query fail with an error
\* status and issued no simulation request
C22_Witness ==
    /\ est_pc = "returned"
    /\ Len(txs) = 2
    /\ bn_reply[1] = Got(Ok([block_number |-> 101]))
    /\ Len(sim_requests[1]) = 1
    /\ sim_requests[1][1].block_number = 101
    /\ bn_reply[2] = Got(Err("HTTP status server error (500)"))
    /\ sim_requests[2] = <<>>
    /\ ~output[2].ok

\* C23: a successful result has as many entries as generated_access_list of
\* the simulator response, in the same order, each with the same address and
\* the same storage keys; an entry whose storage_keys field is absent maps to
\* an entry without keys, and a response with at least one entry succeeds
\* whether or not the field is present.
C23_MappingPreservesEntries ==
    est_pc = "returned" =>
        \A i \in DOMAIN txs :
            (al_reply[i].got /\ al_reply[i].reply.ok) =>
                LET wire == al_reply[i].reply.value.generated_access_list
                IN /\ output[i].ok <=> Len(wire) >= 1
                   /\ output[i].ok =>
                         /\ Len(output[i].value) = Len(wire)
                         /\ \A j \in DOMAIN wire :
                               /\ output[i].value[j].address = wire[j].address
                               /\ wire[j].storage_keys.some =>
                                     output[i].value[j].storage_keys = wire[j].storage_keys.val
                               /\ ~wire[j].storage_keys.some =>
                                     output[i].value[j].storage_keys = <<>>

\* a response of two entries, the first without storage_keys, has become an
\* access list of two entries, the first without keys
C23_Witness ==
    /\ est_pc = "returned"
    /\ Len(txs) >= 1
    /\ al_reply[1].got
    /\ al_reply[1].reply.ok
    /\ Len(al_reply[1].reply.value.generated_access_list) = 2
    /\ ~al_reply[1].reply.value.generated_access_list[1].storage_keys.some
    /\ output[1].ok
    /\ Len(output[1].value) = 2
    /\ output[1].value[1] = [address |-> 2, storage_keys |-> <<>>]
    /\ output[1].value[2] = [address |-> 1, storage_keys |-> << "k1", "k2" >>]

\* C24 as stated: after pruning in prepare_model the sell token of every
\* retained limit order is the native token or has a pool connecting it to
\* the native token.
C24_SellTokenConnected ==
    \A r \in Rounds :
        pc[r] = "prepared" =>
            LET R == OneHopSet(split_liquidity(liquidity[r])[2], native_token)
            IN \A i \in DOMAIN orders[r][1] : orders[r][1][i].sell_token \in R

\* C24 amended: after pruning in prepare_model the sell token or the buy
\* token of every retained limit order is the native token or has a pool
\* connecting it to the native token; every order of the snapshot whose sell
\* token is so connected is retained, and so is every order whose buy token
\* is, whatever its sell token; the orders removed have neither.
C24_SellOrBuyTokenConnected ==
    \A r \in Rounds :
        pc[r] = "prepared" =>
            LET input == split_liquidity(liquidity[r])[1]
                R == OneHopSet(split_liquidity(liquidity[r])[2], native_token)
                Retained(o) == \E i \in DOMAIN orders[r][1] : orders[r][1][i] = o
            IN /\ \A i \in DOMAIN orders[r][1] :
                     \/ orders[r][1][i].sell_token \in R
                     \/ orders[r][1][i].buy_token \in R
               /\ \A j \in DOMAIN input :
                     /\ input[j].sell_token \in R => Retained(input[j])
                     /\ input[j].buy_token \in R => Retained(input[j])
                     /\ (input[j].sell_token \notin R /\ input[j].buy_token \notin R)
                           => ~Retained(input[j])

\* the example of the test: the order selling token 10 for the native token
\* is retained although token 10 has no pool with the native token
C24_Witness ==
    /\ pc[1] = "prepared"
    /\ liquidity[1] = TestLiquidity
    /\ native_token = 0
    /\ 10 \notin OneHopSet(TestAmms, 0)
    /\ \E i \in DOMAIN orders[1][1] :
          orders[1][1][i].sell_token = 10 /\ orders[1][1][i].buy_token = 0
    /\ Len(orders[1][1]) < Len(TestOrders)

\* C25: for every snapshot the tokens maps of the model and of the context
\* have the same keys, the identifiers of all tokens of all limit orders and
\* pools of the snapshot, those of orders removed by pruning included; and
\* the model has one pool entry for every pool of the snapshot, in the order
\* of the snapshot, whether or not the pool touches the native token.
C25_TokensAndPoolsOfWholeSnapshot ==
    \A r \in Rounds :
        pc[r] = "prepared" =>
            LET pools == SelectSeq(liquidity[r], IsAmm)
                ids == { ExpectedTokenId(t) : t \in SnapshotTokens(liquidity[r]) }
            IN /\ DOMAIN model[r].tokens = ids
               /\ DOMAIN context[r].tokens = ids
               /\ Len(pools) <= Len(DecimalKeys)
               /\ Cardinality(DOMAIN model[r].uniswaps) = Len(pools)
               /\ DOMAIN model[r].uniswaps = { DecimalKeys[i] : i \in 1..Len(pools) }
               /\ \A i \in 1..Len(pools) :
                     /\ model[r].uniswaps[DecimalKeys[i]].token1
                           = ExpectedTokenId(pools[i].amm.tokens[1])
                     /\ model[r].uniswaps[DecimalKeys[i]].token2
                           = ExpectedTokenId(pools[i].amm.tokens[2])
                     /\ context[r].amm_orders[DecimalKeys[i]] = pools[i].amm

\* the mixed snapshot: token 27 occurs only in the order that pruning
\* removes and is in both tokens maps, and the pool 1 - 10, which does not
\* touch the native token, is in the model
C25_Witness ==
    /\ pc[1] = "prepared"
    /\ liquidity[1] = MixedLiquidity
    /\ native_token = 0
    /\ \A i \in DOMAIN orders[1][1] :
          orders[1][1][i].sell_token # 27 /\ orders[1][1][i].buy_token # 27
    /\ "t000000000000000000000000000000000000001b" \in DOMAIN model[1].tokens
    /\ "t000000000000000000000000000000000000001b" \in DOMAIN context[1].tokens
    /\ DOMAIN model[1].uniswaps = { "0", "1" }
    /\ model[1].uniswaps["1"].token1 = "t0000000000000000000000000000000000000001"
    /\ model[1].uniswaps["1"].token2 = "t000000000000000000000000000000000000000a"

====
